---- MODULE Spec2Model ----
(***************************************************************************)
(* Model of the fire-extinguisher detection servers:                       *)
(*   src/ai-server/model_server.py  (YOLOv8 layout, no objectness, NMS)    *)
(*   src/model_server.py            (objectness layout, no NMS)            *)
(*                                                                         *)
(* Numbers.  Class scores, confidences and minConfidence are fixed-point   *)
(* integers in units of 1/ScoreScale (90 is 0.9, 5000 is the logit 50).    *)
(* In the objectness variant a confidence is a product of two scores and   *)
(* is kept in units of 1/ScoreScale^2.  Box columns of a tensor are whole  *)
(* model pixels.  A bbox coordinate produced by a postprocessor is the     *)
(* exact rational value the code computes, written as its numerator over   *)
(* the common denominator CoordDen(model_size) = 2 * model_size.  An IoU   *)
(* and an IoU threshold are rationals [num, den] with den > 0.  All tensor  *)
(* values are finite numbers.                                              *)
(***************************************************************************)
EXTENDS Integers, Sequences, FiniteSets, TLC

VARIABLES
    variant,       \* which server file is running: "ai-server" or "root"
    phase,         \* "startup" before the startup handler ran, then "serving"
    ort_session,   \* global ort_session: "None" or "session"
    input_name,    \* global input_name: "None" or "images"
    input_shape,   \* global input_shape: [none |-> BOOLEAN, dims |-> Seq(Nat)]
    output_shape,  \* the declared output shape load_model read (a local)
    load_raised,   \* whether load_model raised in the startup handler
    request,       \* the body of the request the last response answers
    response,      \* the last HTTP response
    pp_in,         \* arguments of a direct postprocess_detections call
    pp_out,        \* its outcome
    nms_in,        \* arguments of a direct apply_nms call
    nms_out,       \* its outcome
    iou_in,        \* arguments of a direct compute_iou call
    iou_out        \* its outcome

vars == <<variant, phase, ort_session, input_name, input_shape, output_shape,
          load_raised,
          request, response, pp_in, pp_out, nms_in, nms_out, iou_in, iou_out>>

----------------------------------------------------------------------------
(* Program constants *)

ScoreScale == 100
SampleRows == 100
DefaultModelSize == 640
SigmoidClip == 500

CLASS_NAMES ==
    <<"shell", "hose", "nozzle", "pressure_gauge", "safety_pin", "pin_seal",
      "service_tag">>

ROOT_CLASS_NAMES ==
    <<"shell", "hose", "nozzle", "gauge", "pin", "seal", "tag">>

\* iou_threshold=0.5 passed by postprocess_detections to apply_nms
NmsIouThreshold == [num |-> 1, den |-> 2]

----------------------------------------------------------------------------
(* Python built-ins as the code uses them *)

\* min(a, b): the first argument unless the second is smaller
PyMin(a, b) == IF b < a THEN b ELSE a

\* max(a, b): the first argument unless the second is larger
PyMax(a, b) == IF b > a THEN b ELSE a

SetMax(S) == CHOOSE m \in S : \A x \in S : x <= m

\* 0-based index of the last maximum of a non-empty vector
ArgMaxLast(v) ==
    (CHOOSE i \in 1..Len(v) :
        /\ \A j \in 1..Len(v) : v[j] <= v[i]
        /\ \A j \in (i + 1)..Len(v) : v[j] < v[i]) - 1

\* np.argmax over a non-empty vector: 0-based index of the first maximum
ArgMax(v) ==
    (CHOOSE i \in 1..Len(v) :
        /\ \A j \in 1..Len(v) : v[j] <= v[i]
        /\ \A j \in 1..(i - 1) : v[j] < v[i]) - 1

\* v[k:] for a 0-based k (empty when k >= len(v))
SliceFrom(v, k) == IF k >= Len(v) THEN <<>> ELSE SubSeq(v, k + 1, Len(v))

----------------------------------------------------------------------------
(* Tensors: [rank, d1, d2, data]; for rank 3 the batch axis of size 1 is   *)
(* implicit and d1, d2 are the two remaining axes; data[i][j], 1-based.    *)

\* np.transpose(x, (1, 0))
Transpose(t) ==
    [rank |-> 2, d1 |-> t.d2, d2 |-> t.d1,
     data |-> [i \in 1..t.d2 |-> [j \in 1..t.d1 |-> t.data[j][i]]]]

\* outputs[0] of a rank-3 tensor
DropBatch(t) == [t EXCEPT !.rank = 2]

\* ai-server: shape normalisation at the head of postprocess_detections
NormalizeOutputs(outputs) ==
    IF outputs.rank = 3
    THEN Transpose(DropBatch(outputs))
    ELSE IF outputs.d1 < outputs.d2
         THEN Transpose(outputs)
         ELSE outputs

\* root server: shape normalisation at the head of postprocess_detections
NormalizeOutputsObj(outputs) ==
    IF outputs.rank = 3
    THEN IF outputs.d1 > outputs.d2
         THEN Transpose(DropBatch(outputs))
         ELSE DropBatch(outputs)
    ELSE outputs

----------------------------------------------------------------------------
(* sigmoid: clip to [-500, 500], then 1 / (1 + exp(-x)).  The logistic     *)
(* curve is tabulated at the integer logits -6..6 (two decimals) and       *)
(* interpolated linearly in between; beyond +-6 it rounds to 0 and 1.      *)

SigTable == <<0, 1, 2, 5, 12, 27, 50, 73, 88, 95, 98, 99, 100>>

Clip(x, lo, hi) == IF x < lo THEN lo ELSE IF x > hi THEN hi ELSE x

sigmoid(x) ==
    LET c == Clip(x, -SigmoidClip * ScoreScale, SigmoidClip * ScoreScale)
        k == c \div ScoreScale
        f == c % ScoreScale
    IN  IF c <= -6 * ScoreScale THEN 0
        ELSE IF c >= 6 * ScoreScale THEN ScoreScale
        ELSE SigTable[k + 7]
               + ((SigTable[k + 8] - SigTable[k + 7]) * f) \div ScoreScale

\* a sigmoid applied to the sampled rows only
ApplySigmoidSampled(t) ==
    [t EXCEPT !.data =
        [i \in 1..t.d1 |->
            [j \in 1..t.d2 |->
                IF j > 4 /\ i <= SampleRows
                THEN sigmoid(t.data[i][j]) ELSE t.data[i][j]]]]

\* outputs[:, 4:] = sigmoid(outputs[:, 4:])
ApplySigmoid(t) ==
    [t EXCEPT !.data =
        [i \in 1..t.d1 |->
            [j \in 1..t.d2 |->
                IF j > 4 THEN sigmoid(t.data[i][j]) ELSE t.data[i][j]]]]

----------------------------------------------------------------------------
(* IoU and non-maximum suppression (ai-server) *)

RatLess(a, b) == a.num * b.den < b.num * a.den

\* longest detection list handed to apply_nms in a direct call
MaxDets == 3

\* an IoU that divides by the first box's area
compute_iou_over_first(box1, box2) ==
    LET x1_i == PyMax(box1[1], box2[1])
        y1_i == PyMax(box1[2], box2[2])
        x2_i == PyMin(box1[3], box2[3])
        y2_i == PyMin(box1[4], box2[4])
        intersection == (x2_i - x1_i) * (y2_i - y1_i)
        area1 == (box1[3] - box1[1]) * (box1[4] - box1[2])
    IN  IF x2_i < x1_i \/ y2_i < y1_i THEN [num |-> 0, den |-> 1]
        ELSE IF area1 = 0 THEN [num |-> 0, den |-> 1]
        ELSE [num |-> intersection, den |-> area1]

\* an IoU whose union counts the intersection twice
compute_iou_sum_of_areas(box1, box2) ==
    LET x1_i == PyMax(box1[1], box2[1])
        y1_i == PyMax(box1[2], box2[2])
        x2_i == PyMin(box1[3], box2[3])
        y2_i == PyMin(box1[4], box2[4])
        intersection == (x2_i - x1_i) * (y2_i - y1_i)
        area1 == (box1[3] - box1[1]) * (box1[4] - box1[2])
        area2 == (box2[3] - box2[1]) * (box2[4] - box2[2])
        union == area1 + area2
    IN  IF x2_i < x1_i \/ y2_i < y1_i THEN [num |-> 0, den |-> 1]
        ELSE IF union = 0 THEN [num |-> 0, den |-> 1]
        ELSE [num |-> intersection, den |-> union]

\* an IoU that takes two boxes of an empty union for the same box
compute_iou_empty_union_one(box1, box2) ==
    LET x1_i == PyMax(box1[1], box2[1])
        y1_i == PyMax(box1[2], box2[2])
        x2_i == PyMin(box1[3], box2[3])
        y2_i == PyMin(box1[4], box2[4])
        intersection == (x2_i - x1_i) * (y2_i - y1_i)
        area1 == (box1[3] - box1[1]) * (box1[4] - box1[2])
        area2 == (box2[3] - box2[1]) * (box2[4] - box2[2])
        union == area1 + area2 - intersection
    IN  IF x2_i < x1_i \/ y2_i < y1_i THEN [num |-> 0, den |-> 1]
        ELSE IF union = 0 THEN [num |-> 1, den |-> 1]
        ELSE [num |-> intersection, den |-> union]

compute_iou(box1, box2) ==
    LET x1_i == PyMax(box1[1], box2[1])
        y1_i == PyMax(box1[2], box2[2])
        x2_i == PyMin(box1[3], box2[3])
        y2_i == PyMin(box1[4], box2[4])
        intersection == (x2_i - x1_i) * (y2_i - y1_i)
        area1 == (box1[3] - box1[1]) * (box1[4] - box1[2])
        area2 == (box2[3] - box2[1]) * (box2[4] - box2[2])
        union == area1 + area2 - intersection
    IN  IF x2_i < x1_i \/ y2_i < y1_i THEN [num |-> 0, den |-> 1]
        ELSE IF union = 0 THEN [num |-> 0, den |-> 1]
        ELSE [num |-> intersection, den |-> union]

\* the list left in the order it came in
Unsorted(detections) == detections

\* sorted(detections, key=lambda x: x.confidence, reverse=True): stable and
\* descending, so an element goes behind the elements of greater confidence
\* and behind the earlier elements of equal confidence
SortByConfidence(detections) ==
    LET n == Len(detections)
        place == [i \in 1..n |->
                     1 + Cardinality({j \in 1..n :
                             \/ detections[j].confidence > detections[i].confidence
                             \/ /\ detections[j].confidence = detections[i].confidence
                                /\ j < i})]
    IN  [k \in 1..n |-> detections[CHOOSE i \in 1..n : place[i] = k]]

\* a test with the comparison turned round: det stays when it overlaps best
SurvivesInverted(best, det, iou_threshold) ==
    ~RatLess(compute_iou(best.bbox, det.bbox), iou_threshold)

\* a class-aware test: only a detection of best's class can be suppressed
SurvivesOtherClass(best, det, iou_threshold) ==
    \/ best.class_name # det.class_name
    \/ RatLess(compute_iou(best.bbox, det.bbox), iou_threshold)

\* a test that also lets through a detection whose IoU equals the threshold
SurvivesInclusive(best, det, iou_threshold) ==
    ~RatLess(iou_threshold, compute_iou(best.bbox, det.bbox))

\* the test that lets det stay in the list after best was popped
Survives(best, det, iou_threshold) ==
    RatLess(compute_iou(best.bbox, det.bbox), iou_threshold)

\* a loop that filters the whole list, best included, instead of the list
\* left by pop(0): best stays in the list when its IoU with itself is below
\* the threshold (the loop is cut off after MaxDets + 1 iterations)
RECURSIVE NmsLoopNoPop(_, _, _, _, _)
NmsLoopNoPop(detections, keep, iters, pops, iou_threshold) ==
    IF detections = <<>> \/ iters > MaxDets
    THEN [keep |-> keep, iters |-> iters, pops |-> pops]
    ELSE LET best == Head(detections)
             remaining == SelectSeq(detections,
                              LAMBDA det : Survives(best, det, iou_threshold))
         IN  NmsLoopNoPop(remaining, Append(keep, best), iters + 1,
                          Append(pops, [best |-> best, rest |-> Tail(detections),
                                        remaining |-> remaining]),
                          iou_threshold)

\* the while loop of apply_nms; iters counts its iterations and pops lists,
\* for each iteration, the detection popped, the list it was compared with
\* and the list the filter left
RECURSIVE NmsLoop(_, _, _, _, _)
NmsLoop(detections, keep, iters, pops, iou_threshold) ==
    IF detections = <<>>
    THEN [keep |-> keep, iters |-> iters, pops |-> pops]
    ELSE LET best == Head(detections)
             remaining == SelectSeq(Tail(detections),
                              LAMBDA det : Survives(best, det, iou_threshold))
         IN  NmsLoop(remaining, Append(keep, best), iters + 1,
                     Append(pops, [best |-> best, rest |-> Tail(detections),
                                   remaining |-> remaining]),
                     iou_threshold)

apply_nms_run(detections, iou_threshold) ==
    IF Len(detections) = 0 THEN [keep |-> <<>>, iters |-> 0, pops |-> <<>>]
    ELSE NmsLoop(SortByConfidence(detections), <<>>, 0, <<>>, iou_threshold)

apply_nms(detections, iou_threshold) ==
    apply_nms_run(detections, iou_threshold).keep

----------------------------------------------------------------------------
(* postprocess_detections *)

\* CLASS_NAMES.get(class_id, f"unknown_class_{class_id}")  (ai-server)
ClassName(class_id) ==
    IF class_id + 1 \in 1..Len(CLASS_NAMES)
    THEN CLASS_NAMES[class_id + 1]
    ELSE "unknown_class_" \o ToString(class_id)

\* CLASS_NAMES.get(class_id, f"class_{class_id}")  (root server)
ClassNameObj(class_id) ==
    IF class_id + 1 \in 1..Len(ROOT_CLASS_NAMES)
    THEN ROOT_CLASS_NAMES[class_id + 1]
    ELSE "class_" \o ToString(class_id)

\* input_shape[2] if input_shape else 640; an IndexError when the shape is
\* non-empty but has fewer than three entries
ModelSizeRaises(ishape) ==
    ~ishape.none /\ ishape.dims # <<>> /\ Len(ishape.dims) < 3

ModelSize(ishape) ==
    IF ishape.none \/ ishape.dims = <<>> THEN DefaultModelSize
    ELSE ishape.dims[3]

\* common denominator of the bbox coordinates computed from model_size
CoordDen(model_size) == 2 * model_size

\* (centre -/+ extent / 2) * img_dim / model_size, then max(0, min(v, img_dim)),
\* as a numerator over CoordDen(model_size); sign is -1 or 1
Corner(centre, extent, sign, img_dim, model_size) ==
    LET v == (2 * centre + sign * extent) * img_dim
    IN  PyMax(0, PyMin(v, img_dim * CoordDen(model_size)))

\* an exception swallowed into an empty detection list
ReturnedEmpty == [raised |-> FALSE, detections |-> <<>>]

\* the outcome of a call that raises
Raised == [raised |-> TRUE, detections |-> <<>>]

\* a filter that compares against a fixed 0.25 instead of min_confidence
SkipLowConfidenceFixed(confidence, min_confidence) == confidence < 25

\* if confidence < min_confidence: continue
SkipLowConfidence(confidence, min_confidence) == confidence < min_confidence

\* ai-server: the body of the loop over rows; skip is the `continue'
DecodeRow(detection, min_confidence, img_width, img_height, model_size) ==
    LET x_center == detection[1]
        y_center == detection[2]
        width == detection[3]
        height == detection[4]
        class_scores == SliceFrom(detection, 4)
        class_id == ArgMax(class_scores)
        confidence == class_scores[class_id + 1]
    IN  [skip |-> SkipLowConfidence(confidence, min_confidence),
         det |-> [class_name |-> ClassName(class_id),
                  confidence |-> confidence,
                  bbox |-> <<Corner(x_center, width, -1, img_width, model_size),
                             Corner(y_center, height, -1, img_height, model_size),
                             Corner(x_center, width, 1, img_width, model_size),
                             Corner(y_center, height, 1, img_height, model_size)>>]]

\* the detections appended by a loop over rows
Collect(decoded) ==
    LET kept == SelectSeq(decoded, LAMBDA r : ~r.skip)
    IN  [i \in 1..Len(kept) |-> kept[i].det]

\* outputs[:100, 4:]: the class scores of the first SampleRows rows
SampleScores(norm) ==
    {norm.data[i][j] : i \in 1..PyMin(SampleRows, norm.d1), j \in 5..norm.d2}

\* a calibration that applies the sigmoid whatever the sample holds
AlwaysSigmoid(norm) == TRUE

\* the calibration step: sigmoid on every class score when the sampled
\* maximum is above 1.0 or below 0.0 (the sample is not empty)
NeedsSigmoid(norm) ==
    LET max_score == SetMax(SampleScores(norm))
    IN  max_score > ScoreScale \/ max_score < 0

Calibrate(norm) == IF NeedsSigmoid(norm) THEN ApplySigmoid(norm) ELSE norm

\* ai-server postprocess_detections; ishape is the global input_shape.
\* np.max raises ValueError on an empty sample.
postprocess_detections(outputs, min_confidence, img_width, img_height, ishape) ==
    LET norm == NormalizeOutputs(outputs)
    IN  IF SampleScores(norm) = {} THEN Raised
        ELSE
        LET scored == Calibrate(norm)
            model_size == ModelSize(ishape)
            decoded == [i \in 1..scored.d1 |->
                           DecodeRow(scored.data[i], min_confidence,
                                     img_width, img_height, model_size)]
            detections == Collect(decoded)
        IN  IF ModelSizeRaises(ishape) THEN Raised
            ELSE [raised |-> FALSE,
                  scored |-> scored,
                  candidates |-> detections,
                  detections |->
                      IF Len(detections) > 0
                      THEN apply_nms(detections, NmsIouThreshold)
                      ELSE detections]

\* root server: the body of the loop over rows (rows of length >= 5)
DecodeRowObj(detection, min_confidence, img_width, img_height, model_size) ==
    LET x_center == detection[1]
        y_center == detection[2]
        width == detection[3]
        height == detection[4]
        objectness == IF Len(detection) > 4 THEN detection[5] ELSE ScoreScale
        class_scores == IF Len(detection) > 5 THEN SliceFrom(detection, 5)
                        ELSE SliceFrom(detection, 4)
        class_id == ArgMax(class_scores)
        class_confidence == class_scores[class_id + 1]
        confidence == objectness * class_confidence
    IN  [skip |-> confidence < min_confidence * ScoreScale,
         det |-> [class_name |-> ClassNameObj(class_id),
                  confidence |-> confidence,
                  bbox |-> <<Corner(x_center, width, -1, img_width, model_size),
                             Corner(y_center, height, -1, img_height, model_size),
                             Corner(x_center, width, 1, img_width, model_size),
                             Corner(y_center, height, 1, img_height, model_size)>>]]

\* root server postprocess_detections: no calibration, no NMS.  A row of
\* fewer than four values fails to unpack and a row of exactly four has no
\* class score for argmax: both raise ValueError on the first row.
postprocess_detections_obj(outputs, min_confidence, img_width, img_height, ishape) ==
    LET norm == NormalizeOutputsObj(outputs)
        model_size == ModelSize(ishape)
    IN  IF ModelSizeRaises(ishape) THEN Raised
        ELSE IF norm.d1 > 0 /\ norm.d2 < 5 THEN Raised
        ELSE [raised |-> FALSE,
              detections |->
                  Collect([i \in 1..norm.d1 |->
                              DecodeRowObj(norm.data[i], min_confidence,
                                           img_width, img_height, model_size)])]

----------------------------------------------------------------------------
(* Inputs of the direct postprocess_detections calls.  Images and model     *)
(* inputs are kept small (tens of pixels) so that the areas computed from  *)
(* bbox numerators stay within 32-bit integers.                            *)

\* number of rows of a small tensor; a large one has one row more than the
\* calibration sample
SmallPred == 7
BigPred == SampleRows + 1

FeatCounts == {3, 4, 5, 6}

\* (x_center, y_center, width, height) of the leading rows: a regular box,
\* a negative width, a centre outside the frame, a zero-size box
HeadBoxes ==
    {<<32, 32, 10, 20>>, <<32, 32, -10, 20>>,
     <<-5, 70, 10, 10>>, <<32, 32, 0, 0>>}
\* of the last row: one overlapping the regular box, one far from it
TailBoxes == {<<33, 32, 10, 20>>, <<10, 10, 5, 5>>}

\* the score of the best class of a row
HeadScores == {90, 40, 5000, -300}
TailScores == {95, 60, 150, -300}

\* the score of the other classes of a row whose best class scores hi
OtherScore(hi) == IF hi < 0 THEN hi ELSE 0

\* a prediction row of num_features values: the box, then the class scores
\* with hi at class index hot (1-based); a row too short for a class keeps
\* the leading box values only
FeatureRow(num_features, box, hot, hi) ==
    IF num_features <= 4 THEN SubSeq(box, 1, num_features)
    ELSE box \o [j \in 1..(num_features - 4) |->
                    IF j = hot THEN hi ELSE OtherScore(hi)]

\* a tensor of num_pred predictions: every row is the head row but the last
\* one, which is the tail row (when there is more than one row)
RawTensor(rank, order, num_pred, num_features, head, tail) ==
    LET rows == [i \in 1..num_pred |->
                    IF i = num_pred /\ num_pred > 1
                    THEN FeatureRow(num_features, tail.box,
                                    num_features - 4, tail.hi)
                    ELSE FeatureRow(num_features, head.box, 1, head.hi)]
        pf == [rank |-> rank, d1 |-> num_pred, d2 |-> num_features,
               data |-> rows]
    IN  IF order = "pf" THEN pf ELSE [Transpose(pf) EXCEPT !.rank = rank]

\* a call on a tensor of the given layout; order, num_pred and num_features
\* record how the tensor was laid out ("pf": predictions x features)
PostCall(rank, order, num_pred, num_features, head, tail, min_confidence, size) ==
    [outputs |-> RawTensor(rank, order, num_pred, num_features, head, tail),
     order |-> order, num_pred |-> num_pred, num_features |-> num_features,
     min_confidence |-> min_confidence, size |-> size]

MinConfidences == {50, -500}
ImageSizes == {<<64, 64>>, <<128, 72>>}
NoneShape == [none |-> TRUE, dims |-> <<>>]
InputShapes ==
    {[none |-> FALSE, dims |-> <<1, 3, 64, 64>>],
     [none |-> FALSE, dims |-> <<1, 3, 32, 64>>]}

\* calls on small tensors, in every layout and with every row
SmallCalls ==
    {PostCall(rank, order, p, f, [box |-> hb, hi |-> hs],
              [box |-> tb, hi |-> ts], mc, sz) :
        rank \in {2, 3}, order \in {"pf", "fp"}, p \in {1, SmallPred},
        f \in FeatCounts, hb \in HeadBoxes, hs \in HeadScores,
        tb \in TailBoxes, ts \in TailScores, mc \in MinConfidences,
        sz \in ImageSizes}

\* calls on tensors with one row beyond the calibration sample
BigCalls ==
    {PostCall(rank, order, BigPred, 6, [box |-> <<32, 32, 10, 20>>, hi |-> hs],
              [box |-> <<10, 10, 5, 5>>, hi |-> ts], mc, <<64, 64>>) :
        rank \in {2, 3}, order \in {"pf", "fp"}, hs \in {90, 5000},
        ts \in TailScores, mc \in MinConfidences}

\* calls whose logits lie beyond the clip of the sigmoid
ClipCalls ==
    {PostCall(3, "fp", SmallPred, 6, [box |-> <<32, 32, 10, 20>>, hi |-> hs],
              [box |-> <<10, 10, 5, 5>>, hi |-> ts], 50, <<64, 64>>) :
        hs \in {60000, -60000}, ts \in {95, -60000}}

\* a (1, 11, 3) tensor of probabilities for a 640 x 640 image and a model of
\* input size 640: one row above minConfidence 0.5, two rows below it
ScenarioShape == [none |-> FALSE, dims |-> <<1, 3, 640, 640>>]
ScenarioRows ==
    <<<<320, 320, 100, 200, 90, 10, 0, 0, 0, 0, 0>>,
      <<100, 100, 50, 50, 10, 20, 0, 0, 0, 0, 0>>,
      <<500, 500, 80, 80, 30, 0, 0, 0, 0, 0, 40>>>>
ScenarioCall ==
    [outputs |-> [Transpose([rank |-> 3, d1 |-> 3, d2 |-> 11,
                             data |-> ScenarioRows]) EXCEPT !.rank = 3],
     order |-> "fp", num_pred |-> 3, num_features |-> 11,
     min_confidence |-> 50, size |-> <<640, 640>>]

\* tensors of ten classes, three more than the class-name table: a row of
\* class index 9, one of class index 7 and one of class index 1, for the
\* ai-server layout (14 columns) and for the objectness layout (15 columns,
\* objectness 1.0)
UnknownRows ==
    <<<<32, 32, 10, 20, 0, 0, 0, 0, 0, 0, 0, 0, 0, 90>>,
      <<10, 10, 5, 5, 0, 0, 0, 0, 0, 0, 0, 80, 0, 0>>,
      <<50, 50, 4, 4, 0, 70, 0, 0, 0, 0, 0, 0, 0, 0>>>>
UnknownRowsObj ==
    [i \in 1..3 |-> SubSeq(UnknownRows[i], 1, 4) \o <<ScoreScale>>
                        \o SubSeq(UnknownRows[i], 5, 14)]
UnknownCall ==
    [outputs |-> [Transpose([rank |-> 3, d1 |-> 3, d2 |-> 14,
                             data |-> UnknownRows]) EXCEPT !.rank = 3],
     order |-> "fp", num_pred |-> 3, num_features |-> 14,
     min_confidence |-> 50, size |-> <<64, 64>>]
UnknownCallObj ==
    [outputs |-> [Transpose([rank |-> 3, d1 |-> 3, d2 |-> 15,
                             data |-> UnknownRowsObj]) EXCEPT !.rank = 3],
     order |-> "fp", num_pred |-> 3, num_features |-> 15,
     min_confidence |-> 50, size |-> <<64, 64>>]

NoCall == [done |-> FALSE]
NoRequest == [images |-> <<>>, minConfidence |-> 0]
NoResponse == [endpoint |-> "none"]

----------------------------------------------------------------------------
(* Direct calls of the two postprocessors *)

InitPost ==
    /\ phase = "serving"
    /\ ort_session = "session"
    /\ input_name = "images"
    /\ output_shape = NoneShape
    /\ load_raised = FALSE
    /\ request = NoRequest
    /\ response = NoResponse
    /\ \/ /\ variant \in {"ai-server", "root"}
          /\ input_shape \in InputShapes
          /\ pp_in \in SmallCalls \cup BigCalls
       \/ /\ variant = "ai-server"
          /\ input_shape \in InputShapes
          /\ pp_in \in ClipCalls
       \/ /\ variant = "ai-server"
          /\ input_shape = ScenarioShape
          /\ pp_in = ScenarioCall
       \/ /\ variant = "ai-server"
          /\ input_shape \in InputShapes
          /\ pp_in = UnknownCall
       \/ /\ variant = "root"
          /\ input_shape \in InputShapes
          /\ pp_in = UnknownCallObj
    /\ pp_out = NoCall
    /\ nms_in = NoCall
    /\ nms_out = NoCall
    /\ iou_in = NoCall
    /\ iou_out = NoCall

PostprocessAi ==
    /\ variant = "ai-server"
    /\ ~pp_out.done
    /\ pp_out' = [done |-> TRUE,
                  norm |-> NormalizeOutputs(pp_in.outputs),
                  result |-> postprocess_detections(pp_in.outputs,
                                 pp_in.min_confidence, pp_in.size[1],
                                 pp_in.size[2], input_shape)]
    /\ UNCHANGED <<variant, phase, ort_session, input_name, input_shape,
                   output_shape,
                   load_raised, request, response, pp_in, nms_in, nms_out,
                   iou_in, iou_out>>

PostprocessObj ==
    /\ variant = "root"
    /\ ~pp_out.done
    /\ pp_out' = [done |-> TRUE,
                  norm |-> NormalizeOutputsObj(pp_in.outputs),
                  result |-> postprocess_detections_obj(pp_in.outputs,
                                 pp_in.min_confidence, pp_in.size[1],
                                 pp_in.size[2], input_shape)]
    /\ UNCHANGED <<variant, phase, ort_session, input_name, input_shape,
                   output_shape,
                   load_raised, request, response, pp_in, nms_in, nms_out,
                   iou_in, iou_out>>

NextPost == PostprocessAi \/ PostprocessObj

SpecPost == InitPost /\ [][NextPost]_vars

----------------------------------------------------------------------------
(* Direct calls of apply_nms *)

\* bboxes (x1, y1, x2, y2): a square, its lower half (IoU 1/2 with the
\* square), a shifted square (IoU 1/3), a zero-area box inside the square,
\* an inverted box, a distant box
NmsBoxes ==
    {<<0, 0, 4, 4>>, <<0, 0, 4, 2>>, <<2, 0, 6, 4>>, <<1, 1, 1, 3>>,
     <<4, 4, 0, 0>>, <<8, 8, 9, 9>>}
NmsConfidences == {80, 90}
NmsThresholds ==
    {[num |-> -1, den |-> 2], [num |-> 0, den |-> 1], [num |-> 1, den |-> 3],
     [num |-> 1, den |-> 2], [num |-> 1, den |-> 1], [num |-> 3, den |-> 2]}

\* class of the detection at position i: all alike, or alternating
ClassAt(pattern, i) ==
    IF pattern = "alt" /\ i % 2 = 0 THEN CLASS_NAMES[2] ELSE CLASS_NAMES[1]

DetectionLists ==
    {[i \in 1..Len(l) |-> [class_name |-> ClassAt(pattern, i),
                           confidence |-> l[i][2], bbox |-> l[i][1]]] :
        l \in UNION {[1..n -> NmsBoxes \X NmsConfidences] : n \in 0..MaxDets},
        pattern \in {"same", "alt"}}

InitNms ==
    /\ variant = "ai-server"
    /\ phase = "serving"
    /\ ort_session = "session"
    /\ input_name = "images"
    /\ input_shape = [none |-> FALSE, dims |-> <<1, 3, 64, 64>>]
    /\ output_shape = NoneShape
    /\ load_raised = FALSE
    /\ request = NoRequest
    /\ response = NoResponse
    /\ pp_in = NoCall
    /\ pp_out = NoCall
    /\ nms_in \in [detections : DetectionLists, iou_threshold : NmsThresholds]
    /\ nms_out = NoCall
    /\ iou_in = NoCall
    /\ iou_out = NoCall

ApplyNms ==
    /\ ~nms_out.done
    /\ nms_out' = [done |-> TRUE,
                   keep |-> apply_nms(nms_in.detections, nms_in.iou_threshold),
                   iters |-> apply_nms_run(nms_in.detections,
                                           nms_in.iou_threshold).iters,
                   pops |-> apply_nms_run(nms_in.detections,
                                          nms_in.iou_threshold).pops]
    /\ UNCHANGED <<variant, phase, ort_session, input_name, input_shape,
                   output_shape,
                   load_raised, request, response, pp_in, pp_out, nms_in,
                   iou_in, iou_out>>

NextNms == ApplyNms

SpecNms == InitNms /\ [][NextNms]_vars

----------------------------------------------------------------------------
(* Direct calls of compute_iou *)

\* largest coordinate of a box handed to compute_iou
MaxCoord == 3

\* every box on the grid: proper, of zero width or height, inverted
IouBoxes == (0..MaxCoord) \X (0..MaxCoord) \X (0..MaxCoord) \X (0..MaxCoord)

InitIou ==
    /\ variant = "ai-server"
    /\ phase = "serving"
    /\ ort_session = "session"
    /\ input_name = "images"
    /\ input_shape = [none |-> FALSE, dims |-> <<1, 3, 64, 64>>]
    /\ output_shape = NoneShape
    /\ load_raised = FALSE
    /\ request = NoRequest
    /\ response = NoResponse
    /\ pp_in = NoCall
    /\ pp_out = NoCall
    /\ nms_in = NoCall
    /\ nms_out = NoCall
    /\ iou_in \in [box1 : IouBoxes, box2 : IouBoxes]
    /\ iou_out = NoCall

ComputeIou ==
    /\ ~iou_out.done
    /\ iou_out' = [done |-> TRUE, iou |-> compute_iou(iou_in.box1, iou_in.box2)]
    /\ UNCHANGED <<variant, phase, ort_session, input_name, input_shape,
                   output_shape,
                   load_raised, request, response, pp_in, pp_out, nms_in,
                   nms_out, iou_in>>

NextIou == ComputeIou

SpecIou == InitIou /\ [][NextIou]_vars

----------------------------------------------------------------------------
(* The servers: startup, then requests *)

\* most images in one /detect request
MaxBatch == 2

\* Where load_model stops.  "missing": the model file does not exist;
\* "bad_export": ort.InferenceSession raises; "no_inputs": get_inputs()[0]
\* raises on a session without inputs; "no_outputs": get_outputs()[0]
\* raises on a session without outputs (ai-server only: the root server
\* does not read the outputs); "ok": it returns.
LoadOutcomes(v) ==
    IF v = "ai-server"
    THEN {"missing", "bad_export", "no_inputs", "no_outputs", "ok"}
    ELSE {"missing", "bad_export", "no_inputs", "ok"}

\* declared output shapes: (1, 11, 8400) gives the 7 classes of the table,
\* (1, 6, 7) and (1, 7, 6) give 2 classes, (1, 0, 0) has dynamic axes
\* (written 0), (1, 6) has no third axis
OutputShapes ==
    {[none |-> FALSE, dims |-> <<1, 11, 8400>>],
     [none |-> FALSE, dims |-> <<1, 6, 7>>],
     [none |-> FALSE, dims |-> <<1, 7, 6>>],
     [none |-> FALSE, dims |-> <<1, 0, 0>>],
     [none |-> FALSE, dims |-> <<1, 6>>]}

\* num_classes_in_model != expected_classes in load_model of ai-server, for
\* an output shape whose two axes are known; the root server does not read
\* the output shape
ClassCountMismatch(v, oshape) ==
    IF v # "ai-server" \/ oshape.none \/ Len(oshape.dims) < 2 THEN FALSE
    ELSE LET dim1 == oshape.dims[2]
             dim2 == IF Len(oshape.dims) > 2 THEN oshape.dims[3] ELSE 0
             num_classes_in_model == IF dim1 < dim2 THEN dim1 - 4 ELSE dim2 - 4
         IN  dim1 # 0 /\ dim2 # 0 /\ num_classes_in_model # Len(CLASS_NAMES)

\* a load_model that raises on a class count mismatch
MismatchIsFatal(v, oshape) == ClassCountMismatch(v, oshape)

\* whether the mismatch branch raises: it prints a warning and goes on
MismatchRaises(v, oshape) == FALSE

\* the globals after load_model stopped at outcome, for a session whose
\* first input has the declared shape and whose first output has the shape
\* oshape
load_model(v, outcome, declared, oshape) ==
    [ort_session |-> IF outcome \in {"missing", "bad_export"}
                     THEN "None" ELSE "session",
     input_name |-> IF outcome \in {"missing", "bad_export", "no_inputs"}
                    THEN "None" ELSE "images",
     input_shape |-> IF outcome \in {"missing", "bad_export", "no_inputs"}
                     THEN NoneShape ELSE declared,
     output_shape |-> IF outcome = "ok" /\ v = "ai-server"
                      THEN oshape ELSE NoneShape,
     raised |-> outcome # "ok" \/ MismatchRaises(v, oshape)]

\* lifespan / startup_event: load_model inside try/except, then serve
Startup(outcome, declared, oshape) ==
    /\ phase = "startup"
    /\ outcome \in LoadOutcomes(variant)
    /\ LET g == load_model(variant, outcome, declared, oshape)
       IN  /\ ort_session' = g.ort_session
           /\ input_name' = g.input_name
           /\ input_shape' = g.input_shape
           /\ output_shape' = g.output_shape
           /\ load_raised' = g.raised
    /\ phase' = "serving"
    /\ UNCHANGED <<variant, request, response, pp_in, pp_out, nms_in, nms_out,
                   iou_in, iou_out>>

\* What an image does on its way through run_detection: decodable says
\* whether decode_base64_image returns, size is the decoded image's size,
\* infer is "raise" when ort_session.run raises on it, else "ok", and
\* outputs is the tensor outputs[0] the network returns for it.
ServerTensors ==
    {RawTensor(3, "fp", SmallPred, 6, [box |-> <<32, 32, 10, 20>>, hi |-> 90],
               [box |-> <<33, 32, 10, 20>>, hi |-> 95]),
     RawTensor(3, "fp", SmallPred, 3, [box |-> <<32, 32, 10, 20>>, hi |-> 90],
               [box |-> <<10, 10, 5, 5>>, hi |-> 60])}

\* an undecodable image, an image the session fails on, two images the
\* network answers with a well-formed tensor and one it answers with a
\* malformed tensor; two of the stepIds repeat
GoodTensor == CHOOSE t \in ServerTensors : t.d1 = 6
BadTensor == CHOOSE t \in ServerTensors : t.d1 = 3

Images ==
    {[stepId |-> "step1", decodable |-> FALSE, size |-> <<64, 64>>,
      infer |-> "ok", outputs |-> GoodTensor],
     [stepId |-> "step2", decodable |-> TRUE, size |-> <<64, 64>>,
      infer |-> "raise", outputs |-> GoodTensor],
     [stepId |-> "step1", decodable |-> TRUE, size |-> <<64, 64>>,
      infer |-> "ok", outputs |-> GoodTensor],
     [stepId |-> "step2", decodable |-> TRUE, size |-> <<128, 72>>,
      infer |-> "ok", outputs |-> GoodTensor],
     [stepId |-> "step2", decodable |-> TRUE, size |-> <<64, 64>>,
      infer |-> "ok", outputs |-> BadTensor]}

Requests ==
    [images : UNION {[1..n -> Images] : n \in 0..MaxBatch},
     minConfidence : {50}]

\* preprocess_image: len(input_shape) raises TypeError on None
PreprocessRaises(ishape) == ishape.none

\* the postprocessor of the running server
Postprocess(v, outputs, min_confidence, img_width, img_height, ishape) ==
    IF v = "ai-server"
    THEN postprocess_detections(outputs, min_confidence, img_width,
                                img_height, ishape)
    ELSE postprocess_detections_obj(outputs, min_confidence, img_width,
                                    img_height, ishape)

\* run_detection; ran tells whether ort_session.run was called
run_detection(v, session, ishape, image, min_confidence) ==
    IF session = "None" THEN [raised |-> TRUE, detections |-> <<>>, ran |-> 0]
    ELSE IF PreprocessRaises(ishape)
    THEN [raised |-> TRUE, detections |-> <<>>, ran |-> 0]
    ELSE IF image.infer = "raise"
    THEN [raised |-> TRUE, detections |-> <<>>, ran |-> 1]
    ELSE LET r == Postprocess(v, image.outputs, min_confidence,
                              image.size[1], image.size[2], ishape)
         IN  [raised |-> r.raised, detections |-> r.detections, ran |-> 1]

\* the body of the loop of detect over request.images: decode, run, append
\* an ImageResult; on any exception append an empty ImageResult instead
ProcessImage(v, session, ishape, img_data, min_confidence) ==
    IF ~img_data.decodable
    THEN [result |-> [stepId |-> img_data.stepId, detections |-> <<>>],
          failed |-> TRUE, ran |-> 0]
    ELSE LET r == run_detection(v, session, ishape, img_data, min_confidence)
         IN  IF r.raised
             THEN [result |-> [stepId |-> img_data.stepId, detections |-> <<>>],
                   failed |-> TRUE, ran |-> r.ran]
             ELSE [result |-> [stepId |-> img_data.stepId,
                               detections |-> r.detections],
                   failed |-> FALSE, ran |-> r.ran]

\* a loop that stops at the first image that fails
RECURSIVE DetectLoopAbort(_, _, _, _, _, _, _)
DetectLoopAbort(v, session, ishape, req, idx, results_list, ran) ==
    IF idx > Len(req.images) THEN [results |-> results_list, ran |-> ran]
    ELSE LET p == ProcessImage(v, session, ishape, req.images[idx],
                               req.minConfidence)
         IN  IF p.failed
             THEN [results |-> Append(results_list, p.result), ran |-> ran + p.ran]
             ELSE DetectLoopAbort(v, session, ishape, req, idx + 1,
                                  Append(results_list, p.result), ran + p.ran)

\* a loop that appends no result for an image that fails
RECURSIVE DetectLoopSkipFailed(_, _, _, _, _, _, _)
DetectLoopSkipFailed(v, session, ishape, req, idx, results_list, ran) ==
    IF idx > Len(req.images) THEN [results |-> results_list, ran |-> ran]
    ELSE LET p == ProcessImage(v, session, ishape, req.images[idx],
                               req.minConfidence)
         IN  DetectLoopSkipFailed(v, session, ishape, req, idx + 1,
                 IF p.failed THEN results_list
                 ELSE Append(results_list, p.result), ran + p.ran)

\* a loop in which an empty result makes every later image's result empty
RECURSIVE DetectLoopPoisoned(_, _, _, _, _, _, _)
DetectLoopPoisoned(v, session, ishape, req, idx, results_list, ran) ==
    IF idx > Len(req.images) THEN [results |-> results_list, ran |-> ran]
    ELSE LET p == ProcessImage(v, session, ishape, req.images[idx],
                               req.minConfidence)
             poisoned == \E i \in 1..Len(results_list) :
                             results_list[i].detections = <<>>
         IN  DetectLoopPoisoned(v, session, ishape, req, idx + 1,
                 Append(results_list,
                        IF poisoned THEN [p.result EXCEPT !.detections = <<>>]
                        ELSE p.result), ran + p.ran)

\* the loop of detect, from image idx on
RECURSIVE DetectLoop(_, _, _, _, _, _, _)
DetectLoop(v, session, ishape, req, idx, results_list, ran) ==
    IF idx > Len(req.images) THEN [results |-> results_list, ran |-> ran]
    ELSE LET p == ProcessImage(v, session, ishape, req.images[idx],
                               req.minConfidence)
         IN  DetectLoop(v, session, ishape, req, idx + 1,
                        Append(results_list, p.result), ran + p.ran)

\* the status of the response when HTTPException(503) is raised inside the
\* try block of detect: `except Exception' catches it and raises
\* HTTPException(500, detail=str(e))
NotLoadedStatus == 500
NotLoadedDetail == "503: Model not loaded"

\* POST /detect
detect(v, session, ishape, req) ==
    IF session = "None"
    THEN [endpoint |-> "detect", status |-> NotLoadedStatus, success |-> FALSE,
          detail |-> NotLoadedDetail, results |-> <<>>, ran |-> 0]
    ELSE LET l == DetectLoop(v, session, ishape, req, 1, <<>>, 0)
         IN  [endpoint |-> "detect", status |-> 200, success |-> TRUE,
              detail |-> "", results |-> l.results, ran |-> l.ran]

\* a handler that drops the session when an image of the batch failed
SessionDroppedOnFailure(g, resp) ==
    IF \E i \in 1..Len(resp.results) : resp.results[i].detections = <<>>
    THEN [g EXCEPT !.ort_session = "None"] ELSE g

\* the globals g after a request handler answered resp: root, health,
\* detect and run_detection read them, declare none of them global and
\* assign none of them
GlobalsAfterRequest(g, resp) == g

\* the effect of a request handler on the globals
HandlerGlobals(resp) ==
    LET g == GlobalsAfterRequest([ort_session |-> ort_session,
                                  input_name |-> input_name,
                                  input_shape |-> input_shape], resp)
    IN  /\ ort_session' = g.ort_session
        /\ input_name' = g.input_name
        /\ input_shape' = g.input_shape

Detect(req) ==
    /\ phase = "serving"
    /\ request' = req
    /\ response' = detect(variant, ort_session, input_shape, req)
    /\ HandlerGlobals(response')
    /\ UNCHANGED <<variant, phase, output_shape,
                   load_raised, pp_in, pp_out, nms_in, nms_out, iou_in, iou_out>>

\* GET /health
Health ==
    /\ phase = "serving"
    /\ response' = IF ort_session = "None"
                   THEN [endpoint |-> "health", status |-> 503,
                         success |-> FALSE, detail |-> "Model not loaded",
                         results |-> <<>>, ran |-> 0]
                   ELSE [endpoint |-> "health", status |-> 200,
                         success |-> FALSE, detail |-> "healthy",
                         results |-> <<>>, ran |-> 0]
    /\ request' = NoRequest
    /\ HandlerGlobals(response')
    /\ UNCHANGED <<variant, phase, output_shape,
                   load_raised, pp_in, pp_out, nms_in, nms_out, iou_in, iou_out>>

\* GET /
Root ==
    /\ phase = "serving"
    /\ response' = [endpoint |-> "root", status |-> 200, success |-> FALSE,
                    detail |-> IF ort_session = "None"
                               THEN "model_loaded: false"
                               ELSE "model_loaded: true",
                    results |-> <<>>, ran |-> 0]
    /\ request' = NoRequest
    /\ HandlerGlobals(response')
    /\ UNCHANGED <<variant, phase, output_shape,
                   load_raised, pp_in, pp_out, nms_in, nms_out, iou_in, iou_out>>

Init ==
    /\ variant \in {"ai-server", "root"}
    /\ phase = "startup"
    /\ ort_session = "None"
    /\ input_name = "None"
    /\ input_shape = NoneShape
    /\ output_shape = NoneShape
    /\ load_raised = FALSE
    /\ request = NoRequest
    /\ response = NoResponse
    /\ pp_in = NoCall
    /\ pp_out = NoCall
    /\ nms_in = NoCall
    /\ nms_out = NoCall
    /\ iou_in = NoCall
    /\ iou_out = NoCall

Next ==
    \/ \E outcome \in LoadOutcomes(variant), declared \in InputShapes,
          oshape \in OutputShapes :
           Startup(outcome, declared, oshape)
    \/ \E req \in Requests : Detect(req)
    \/ Health
    \/ Root

Spec == Init /\ [][Next]_vars

----------------------------------------------------------------------------
(* Properties *)

\* the outcome of the direct call of the ai-server postprocessor
AiDone == variant = "ai-server" /\ pp_out.done
AiDetections == pp_out.result.detections

\* the confidence the ai-server loop computes for a calibrated row
RowConfidence(detection) ==
    LET class_scores == SliceFrom(detection, 4)
    IN  class_scores[ArgMax(class_scores) + 1]

\* the rows the ai-server loop iterates over in the direct call
CalibratedRows == Calibrate(pp_out.norm).data

\* C1: every detection returned by the ai-server postprocess_detections has
\* confidence >= minConfidence, and comes from a row whose confidence is not
\* below minConfidence (a row below it produces no detection).
C1_ConfidenceFilter ==
    (AiDone /\ ~pp_out.result.raised) =>
        \A i \in 1..Len(AiDetections) :
            /\ AiDetections[i].confidence >= pp_in.min_confidence
            /\ \E r \in 1..Len(CalibratedRows) :
                   /\ RowConfidence(CalibratedRows[r]) >= pp_in.min_confidence
                   /\ AiDetections[i] =
                          DecodeRow(CalibratedRows[r], pp_in.min_confidence,
                                    pp_in.size[1], pp_in.size[2],
                                    ModelSize(input_shape)).det

\* a call that returned a detection although some row was below minConfidence
C1_Witness ==
    /\ AiDone
    /\ ~pp_out.result.raised
    /\ Len(AiDetections) >= 1
    /\ \E r \in 1..Len(CalibratedRows) :
           RowConfidence(CalibratedRows[r]) < pp_in.min_confidence

\* C2: every bbox emitted by the ai-server postprocess_detections satisfies
\* 0 <= x1 <= x2 <= imageWidth and 0 <= y1 <= y2 <= imageHeight, whatever
\* the row's centre, width and height (coordinates are numerators over
\* CoordDen(model_size)).
C2_ClippedAndOrdered ==
    AiDone =>
        \A i \in 1..Len(AiDetections) :
            LET b == AiDetections[i].bbox
                den == CoordDen(ModelSize(input_shape))
            IN  /\ 0 <= b[1] /\ b[1] <= b[3] /\ b[3] <= pp_in.size[1] * den
                /\ 0 <= b[2] /\ b[2] <= b[4] /\ b[4] <= pp_in.size[2] * den

\* C3: every detection returned by the ai-server postprocess_detections has
\* a confidence in [0, 1], for tensors of any number of rows.
C3_ConfidenceInUnitInterval ==
    AiDone =>
        \A i \in 1..Len(AiDetections) :
            /\ 0 <= AiDetections[i].confidence
            /\ AiDetections[i].confidence <= ScoreScale

\* C4: in the ai-server, a 3-D tensor of either axis order with more
\* predictions than features is normalised to (predictions, features).
C4_NormalizeEitherOrder ==
    (AiDone /\ pp_in.outputs.rank = 3 /\ pp_in.num_pred > pp_in.num_features) =>
        /\ pp_out.norm.d1 = pp_in.num_pred
        /\ pp_out.norm.d2 = pp_in.num_features

\* C5: in the root server (objectness variant), a 3-D tensor of either axis
\* order with more predictions than features is normalised so that the rows
\* the decoding loop iterates over are the predictions.
C5_NormalizeObjRowsArePredictions ==
    (variant = "root" /\ pp_out.done /\ pp_in.outputs.rank = 3
        /\ pp_in.num_pred > pp_in.num_features) =>
        /\ pp_out.norm.d1 = pp_in.num_pred
        /\ pp_out.norm.d2 = pp_in.num_features

\* C6: when the normalised tensor has fewer than 5 feature columns, the
\* ai-server postprocess_detections raises instead of returning a list.
C6_MalformedRaises ==
    (AiDone /\ pp_out.norm.d2 < 5) => pp_out.result.raised

\* a call on a tensor normalised to fewer than 5 columns, which raised
C6_Witness ==
    /\ AiDone
    /\ pp_out.norm.d2 < 5
    /\ pp_out.norm.d1 > 0
    /\ pp_out.result.raised

\* whether an image fails inside the per-image try block of detect
ImageFails(img) ==
    \/ ~img.decodable
    \/ PreprocessRaises(input_shape)
    \/ img.infer = "raise"
    \/ Postprocess(variant, img.outputs, request.minConfidence, img.size[1],
                   img.size[2], input_shape).raised

\* what run_detection returns for an image taken alone
ImageAlone(img) ==
    Postprocess(variant, img.outputs, request.minConfidence, img.size[1],
                img.size[2], input_shape).detections

DetectAnswered == response.endpoint = "detect"

\* C7: with the model loaded, detect answers success=true whatever images
\* fail; a failing image's result is empty and every other image's result
\* is what that image yields on its own.
C7_PartialFailure ==
    (DetectAnswered /\ ort_session # "None") =>
        /\ response.status = 200
        /\ response.success
        /\ Len(response.results) = Len(request.images)
        /\ \A i \in 1..Len(request.images) :
               response.results[i].detections =
                   IF ImageFails(request.images[i]) THEN <<>>
                   ELSE ImageAlone(request.images[i])

\* a batch in which a failing image precedes an image with detections
C7_Witness ==
    /\ DetectAnswered
    /\ ort_session # "None"
    /\ \E i, j \in 1..Len(request.images) :
           /\ i < j
           /\ ImageFails(request.images[i])
           /\ ~ImageFails(request.images[j])
           /\ response.results[j].detections # <<>>

\* C8: with ort_session None, a /detect request is answered 503 "Model not
\* loaded" with no per-image results, and the server keeps serving.
C8_NotLoadedIs503 ==
    (DetectAnswered /\ ort_session = "None") =>
        /\ response.status = 503
        /\ response.results = <<>>
        /\ phase = "serving"

\* C9: once load_model raised at startup, every /detect request fails as a
\* whole for lack of a model and no image is run through inference.
C9_FailedLoadMeansNoDetection ==
    (load_raised /\ DetectAnswered) =>
        /\ ~response.success
        /\ response.results = <<>>
        /\ response.ran = 0

NmsDone == nms_out.done

\* C10: no two detections kept by apply_nms have IoU >= threshold with each
\* other, and apply_nms of the kept list is the kept list.
C10_NmsSeparatedAndIdempotent ==
    NmsDone =>
        /\ \A i, j \in 1..Len(nms_out.keep) :
               i # j => RatLess(compute_iou(nms_out.keep[i].bbox,
                                            nms_out.keep[j].bbox),
                                nms_in.iou_threshold)
        /\ apply_nms(nms_out.keep, nms_in.iou_threshold) = nms_out.keep

\* a call that kept two detections and suppressed another
C10_Witness ==
    /\ NmsDone
    /\ Len(nms_out.keep) >= 2
    /\ Len(nms_out.keep) < Len(nms_in.detections)

\* a direct compute_iou call has returned
IouDone == iou_out.done

\* a / b = c / d for rationals of positive denominator
RatEq(a, b) == a.num * b.den = b.num * a.den

Area(box) == (box[3] - box[1]) * (box[4] - box[2])

\* x1 <= x2 and y1 <= y2: a box a detection can carry after clipping a
\* prediction of non-negative width and height
Ordered(box) == box[1] <= box[3] /\ box[2] <= box[4]

\* C11: compute_iou(A, B) equals compute_iou(B, A) for every pair of boxes,
\* those of zero area and the inverted ones included.
C11_IouSymmetric ==
    IouDone => RatEq(iou_out.iou, compute_iou(iou_in.box2, iou_in.box1))

\* two different overlapping boxes, one of them inverted or of zero area
\* in another reachable state
C11_Witness ==
    /\ IouDone
    /\ iou_in.box1 # iou_in.box2
    /\ Area(iou_in.box1) # Area(iou_in.box2)
    /\ iou_out.iou.num > 0
    /\ iou_out.iou.num < iou_out.iou.den

\* C12 as stated: every box with x1 <= x2 and y1 <= y2, the boxes of zero
\* width or height included, has IoU 1 with itself.
C12_SelfIouOneAsStated ==
    (IouDone /\ iou_in.box1 = iou_in.box2 /\ Ordered(iou_in.box1))
        => RatEq(iou_out.iou, [num |-> 1, den |-> 1])

\* C12 amended: a box with x1 <= x2 and y1 <= y2 has IoU 1 with itself when
\* its area is positive and IoU 0 with itself when its width or height is 0.
C12_SelfIou ==
    (IouDone /\ iou_in.box1 = iou_in.box2 /\ Ordered(iou_in.box1))
        => IF Area(iou_in.box1) > 0
           THEN RatEq(iou_out.iou, [num |-> 1, den |-> 1])
           ELSE iou_out.iou.num = 0

\* a box of positive area was compared with itself
C12_Witness ==
    /\ IouDone
    /\ iou_in.box1 = iou_in.box2
    /\ Ordered(iou_in.box1)
    /\ Area(iou_in.box1) > 0
    /\ iou_out.iou.num = iou_out.iou.den

\* area1 + area2 - intersection, the intersection of two boxes that do not
\* overlap being empty
UnionArea(box1, box2) ==
    LET w == PyMin(box1[3], box2[3]) - PyMax(box1[1], box2[1])
        h == PyMin(box1[4], box2[4]) - PyMax(box1[2], box2[2])
    IN  Area(box1) + Area(box2) - (IF w < 0 \/ h < 0 THEN 0 ELSE w * h)

\* C13: under a positive IoU threshold, an iteration of apply_nms that pops
\* a detection of zero area removes none of the detections left in the list,
\* and compute_iou is 0 for every pair of boxes whose union area is 0.
C13_ZeroAreaNeverSuppresses ==
    NmsDone =>
        \A k \in 1..Len(nms_out.pops) :
            LET p == nms_out.pops[k]
            IN  /\ (RatLess([num |-> 0, den |-> 1], nms_in.iou_threshold)
                        /\ Area(p.best.bbox) = 0)
                    => p.remaining = p.rest
                /\ \A i \in 1..Len(p.rest) :
                        UnionArea(p.best.bbox, p.rest[i].bbox) = 0
                            => compute_iou(p.best.bbox, p.rest[i].bbox).num = 0

\* a zero-area detection was popped while its twin and a box containing it
\* were still in the list, and both stayed
C13_Witness ==
    /\ NmsDone
    /\ RatLess([num |-> 0, den |-> 1], nms_in.iou_threshold)
    /\ \E k \in 1..Len(nms_out.pops) :
            LET p == nms_out.pops[k]
            IN  /\ Area(p.best.bbox) = 0
                /\ Len(p.rest) = 2
                /\ p.remaining = p.rest
                /\ \E i \in 1..2 : p.rest[i].bbox = p.best.bbox
                /\ \E i \in 1..2 : /\ Area(p.rest[i].bbox) > 0
                                     /\ p.rest[i].bbox[1] <= p.best.bbox[1]
                                     /\ p.rest[i].bbox[3] >= p.best.bbox[3]
                                     /\ p.rest[i].bbox[2] <= p.best.bbox[2]
                                     /\ p.rest[i].bbox[4] >= p.best.bbox[4]

\* the detections with their class names blanked
EraseClass(detections) ==
    [i \in 1..Len(detections) |-> [detections[i] EXCEPT !.class_name = ""]]

\* the positions of rest whose detection has another class than best and an
\* IoU with best of at least the threshold
OtherClassOverlaps(p, iou_threshold) ==
    {i \in 1..Len(p.rest) :
        /\ p.rest[i].class_name # p.best.class_name
        /\ ~RatLess(compute_iou(p.best.bbox, p.rest[i].bbox), iou_threshold)}

\* C14: apply_nms is not class-aware.  What it keeps is, class names aside,
\* what it keeps of the same list with the class names blanked, and every
\* iteration removes each detection of another class than the popped one
\* whose IoU with the popped one is at least the threshold.
C14_NotClassAware ==
    NmsDone =>
        /\ EraseClass(nms_out.keep)
               = apply_nms(EraseClass(nms_in.detections), nms_in.iou_threshold)
        /\ \A k \in 1..Len(nms_out.pops) :
               LET p == nms_out.pops[k]
               IN  /\ Len(p.remaining) <= Len(p.rest)
                          - Cardinality(OtherClassOverlaps(p, nms_in.iou_threshold))
                   /\ \A j \in 1..Len(p.remaining) :
                          RatLess(compute_iou(p.best.bbox, p.remaining[j].bbox),
                                  nms_in.iou_threshold)

\* a detection was removed by a kept detection of another class, at the
\* threshold 1/2 the server uses
C14_Witness ==
    /\ NmsDone
    /\ nms_in.iou_threshold = NmsIouThreshold
    /\ Len(nms_in.detections) = 2
    /\ Len(nms_out.keep) = 1
    /\ OtherClassOverlaps(nms_out.pops[1], nms_in.iou_threshold) = {1}
    /\ nms_out.pops[1].best.confidence > nms_out.pops[1].rest[1].confidence

NonIncreasing(detections) ==
    \A i, j \in 1..Len(detections) :
        i < j => detections[i].confidence >= detections[j].confidence

\* C15: the list apply_nms returns, and so the list postprocess_detections
\* of ai-server returns, is in order of non-increasing confidence, whatever
\* the order of the input.
C15_OutputSortedByConfidence ==
    /\ NmsDone => NonIncreasing(nms_out.keep)
    /\ AiDone => NonIncreasing(AiDetections)

\* an input in increasing order of confidence came out in decreasing order
C15_Witness ==
    /\ NmsDone
    /\ Len(nms_in.detections) = 3
    /\ nms_in.detections[1].confidence < nms_in.detections[2].confidence
    /\ nms_in.detections[3].confidence < nms_in.detections[2].confidence
    /\ Len(nms_out.keep) = 3
    /\ nms_out.keep[1].confidence > nms_out.keep[3].confidence

\* the ai-server call returned without raising
AiReturned == AiDone /\ ~pp_out.result.raised

\* the largest class score among the first SampleRows rows of the
\* normalised tensor of the direct call
SampleMax ==
    SetMax({pp_out.norm.data[i][j] :
               i \in 1..PyMin(SampleRows, pp_out.norm.d1),
               j \in 5..pp_out.norm.d2})

\* the largest class score of a row
RowMax(row) == SetMax({row[j] : j \in 5..Len(row)})

\* the rows, in order, whose largest class score is not below min_confidence
PassingRows(t, min_confidence) ==
    SelectSeq([i \in 1..t.d1 |-> i],
              LAMBDA i : RowMax(t.data[i]) >= min_confidence)

\* C16: when the largest class score of the first min(100, numPredictions)
\* rows lies in [0, 1], no class score of any row is changed, and the
\* confidence of each candidate, and so of each detection returned, is the
\* raw largest class score of its row.
C16_CalibrationNoOp ==
    (AiReturned /\ SampleMax >= 0 /\ SampleMax <= ScoreScale) =>
        LET passing == PassingRows(pp_out.norm, pp_in.min_confidence)
            candidates == pp_out.result.candidates
        IN  /\ pp_out.result.scored = pp_out.norm
            /\ Len(candidates) = Len(passing)
            /\ \A k \in 1..Len(candidates) :
                   candidates[k].confidence
                       = RowMax(pp_out.norm.data[passing[k]])
            /\ \A k \in 1..Len(AiDetections) :
                   \E r \in 1..pp_out.norm.d1 :
                       AiDetections[k].confidence
                           = RowMax(pp_out.norm.data[r])

\* a tensor of probabilities gave a detection of confidence 0.9 and, from a
\* row beyond the sample, one of the raw score 1.5
C16_Witness ==
    /\ AiReturned
    /\ SampleMax = 90
    /\ pp_out.norm.d1 > SampleRows
    /\ \E k \in 1..Len(AiDetections) : AiDetections[k].confidence = 90
    /\ \E k \in 1..Len(AiDetections) : AiDetections[k].confidence = 150

\* C17: when that sampled maximum is above 1.0 or below 0.0, every class
\* score of every row, sampled or not, is replaced by its logistic value
\* (of the score clipped to [-500, 500]), the four box columns are left
\* alone, and every confidence is at most 1: a logit of 50 gives 1.0.
C17_SigmoidOnEveryRow ==
    (AiReturned /\ (SampleMax > ScoreScale \/ SampleMax < 0)) =>
        LET norm == pp_out.norm
            scored == pp_out.result.scored
        IN  /\ scored.d1 = norm.d1 /\ scored.d2 = norm.d2
            /\ \A i \in 1..norm.d1 :
                   /\ \A j \in 1..PyMin(4, norm.d2) :
                          scored.data[i][j] = norm.data[i][j]
                   /\ \A j \in 5..norm.d2 :
                          /\ scored.data[i][j] = sigmoid(norm.data[i][j])
                          /\ norm.data[i][j] > SigmoidClip * ScoreScale
                                => scored.data[i][j]
                                       = sigmoid(SigmoidClip * ScoreScale)
                          /\ norm.data[i][j] < -SigmoidClip * ScoreScale
                                => scored.data[i][j]
                                       = sigmoid(-SigmoidClip * ScoreScale)
                          /\ norm.data[i][j] = 50 * ScoreScale
                                => scored.data[i][j] = ScoreScale
            /\ \A k \in 1..Len(pp_out.result.candidates) :
                   pp_out.result.candidates[k].confidence \in 0..ScoreScale
            /\ \A k \in 1..Len(AiDetections) :
                   AiDetections[k].confidence \in 0..ScoreScale

\* a tensor of logits with a row beyond the sample: the logit 50 of the
\* sampled rows became 1.0 and the 1.5 of row 101 became a probability
C17_Witness ==
    /\ AiReturned
    /\ SampleMax = 50 * ScoreScale
    /\ pp_out.norm.d1 > SampleRows
    /\ pp_out.norm.data[pp_out.norm.d1][pp_out.norm.d2] = 150
    /\ pp_out.result.scored.data[pp_out.norm.d1][pp_out.norm.d2] = sigmoid(150)
    /\ sigmoid(150) < ScoreScale
    /\ \E k \in 1..Len(AiDetections) : AiDetections[k].confidence = ScoreScale

\* logits beyond the clip were calibrated
C17_ClipReached ==
    /\ AiReturned
    /\ \E i \in 1..pp_out.norm.d1, j \in 5..pp_out.norm.d2 :
           pp_out.norm.data[i][j] > SigmoidClip * ScoreScale
    /\ \E i \in 1..pp_out.norm.d1, j \in 5..pp_out.norm.d2 :
           pp_out.norm.data[i][j] < -SigmoidClip * ScoreScale

\* the height and width preprocess_image resizes the image to
ModelInputHeight == input_shape.dims[3]
ModelInputWidth == input_shape.dims[4]

\* (centre -/+ extent / 2) * img_dim / model_dim clipped to [0, img_dim], as
\* a numerator over 2 * model_dim
ScaledBy(centre, extent, sign, img_dim, model_dim) ==
    Clip((2 * centre + sign * extent) * img_dim, 0, img_dim * 2 * model_dim)

\* n / CoordDen(model size the code took) = m / (2 * model_dim)
SameCoordinate(n, m, model_dim) ==
    n * 2 * model_dim = m * CoordDen(ModelSize(input_shape))

\* C18: the x coordinates of a bbox are the model-space ones multiplied by
\* imageWidth / modelInputWidth and the y coordinates by imageHeight /
\* modelInputHeight, for every declared input shape, the non-square ones
\* included.
C18_PerAxisRescaling ==
    AiReturned =>
        LET scored == pp_out.result.scored
            passing == PassingRows(scored, pp_in.min_confidence)
            candidates == pp_out.result.candidates
        IN  \A k \in 1..Len(candidates) :
                LET row == scored.data[passing[k]]
                    bbox == candidates[k].bbox
                IN  /\ SameCoordinate(bbox[1],
                           ScaledBy(row[1], row[3], -1, pp_in.size[1],
                                    ModelInputWidth), ModelInputWidth)
                    /\ SameCoordinate(bbox[3],
                           ScaledBy(row[1], row[3], 1, pp_in.size[1],
                                    ModelInputWidth), ModelInputWidth)
                    /\ SameCoordinate(bbox[2],
                           ScaledBy(row[2], row[4], -1, pp_in.size[2],
                                    ModelInputHeight), ModelInputHeight)
                    /\ SameCoordinate(bbox[4],
                           ScaledBy(row[2], row[4], 1, pp_in.size[2],
                                    ModelInputHeight), ModelInputHeight)

\* the same with square input shapes only
C18_SquareShapes ==
    ModelInputHeight = ModelInputWidth => C18_PerAxisRescaling

\* the 0-based index of the first class whose score is the row's largest
FirstBestClass(row) ==
    CHOOSE c \in 0..(Len(row) - 5) :
        /\ row[5 + c] = RowMax(row)
        /\ \A b \in 0..(c - 1) : row[5 + b] < RowMax(row)

\* C19: in ai-server each calibrated row whose largest class score is not
\* below minConfidence yields exactly one candidate, in row order: its class
\* is the argmax of the class scores, its confidence that largest score (no
\* objectness factor) and its bbox (xc - w/2, yc - h/2, xc + w/2, yc + h/2)
\* rescaled by image size over model size and clipped to the image.  The
\* (1, 11, 3) scenario returns one detection: class index 0, confidence
\* 0.9, bbox [270, 220, 370, 420].
C19_OneCandidatePerPassingRow ==
    AiReturned =>
        LET scored == pp_out.result.scored
            passing == PassingRows(scored, pp_in.min_confidence)
            candidates == pp_out.result.candidates
            size == ModelSize(input_shape)
        IN  /\ Len(candidates) = Len(passing)
            /\ \A k \in 1..Len(candidates) :
                   LET row == scored.data[passing[k]]
                   IN  /\ candidates[k].class_name
                              = ClassName(FirstBestClass(row))
                       /\ candidates[k].confidence = RowMax(row)
                       /\ candidates[k].bbox
                              = <<ScaledBy(row[1], row[3], -1, pp_in.size[1], size),
                                  ScaledBy(row[2], row[4], -1, pp_in.size[2], size),
                                  ScaledBy(row[1], row[3], 1, pp_in.size[1], size),
                                  ScaledBy(row[2], row[4], 1, pp_in.size[2], size)>>
            /\ pp_in = ScenarioCall =>
                   AiDetections
                       = <<[class_name |-> CLASS_NAMES[1], confidence |-> 90,
                            bbox |-> <<270 * CoordDen(640), 220 * CoordDen(640),
                                       370 * CoordDen(640), 420 * CoordDen(640)>>]>>

\* the scenario call returned its single detection
C19_Witness ==
    /\ AiReturned
    /\ pp_in = ScenarioCall
    /\ pp_out.norm.d1 = 3 /\ pp_out.norm.d2 = 11
    /\ Len(pp_out.result.candidates) = 1
    /\ Len(AiDetections) = 1
    /\ AiDetections[1].confidence = 90

\* a row whose class scores are all equal became a candidate
C19_TieReached ==
    /\ AiReturned
    /\ \E k \in 1..Len(pp_out.result.candidates) :
           LET row == pp_out.result.scored.data[
                          PassingRows(pp_out.result.scored,
                                      pp_in.min_confidence)[k]]
           IN  Len(row) >= 6 /\ row[5] = row[6]

\* the root server call returned without raising
ObjReturned == variant = "root" /\ pp_out.done /\ ~pp_out.result.raised

\* the largest of the class scores that follow the objectness column
ClassMax(row) == SetMax({row[j] : j \in 6..Len(row)})

\* C20: in the root server every detection comes from a row that has class
\* columns after the objectness column (column 4), and its confidence is
\* the objectness times the largest of those class scores; the objectness
\* column is never the class score of the product.
C20_ObjectnessTimesClassScore ==
    ObjReturned =>
        \A k \in 1..Len(pp_out.result.detections) :
            \E r \in 1..pp_out.norm.d1 :
                LET row == pp_out.norm.data[r]
                IN  /\ Len(row) >= 6
                    /\ pp_out.result.detections[k].confidence
                           = row[5] * ClassMax(row)

\* the same for tensors whose rows have six values or more
C20_SixOrMoreColumns ==
    (ObjReturned /\ pp_out.norm.d2 >= 6) => C20_ObjectnessTimesClassScore

\* a row of five values gave a detection whose confidence is the square of
\* its fifth value
C20_FiveColumnsReached ==
    /\ ObjReturned
    /\ pp_out.norm.d2 = 5
    /\ \E k \in 1..Len(pp_out.result.detections) :
           /\ pp_out.result.detections[k].confidence = 90 * 90
           /\ \E r \in 1..pp_out.norm.d1 : pp_out.norm.data[r][5] = 90

\* the name the claim gives a class index outside the table
PlaceholderName(class_id) == "unknown_class_" \o ToString(class_id)

\* the confidence the root server computes for a row of five values or more
ObjConfidence(row) ==
    row[5] * (IF Len(row) >= 6 THEN ClassMax(row) ELSE row[5])

\* the rows, in order, the root server does not skip
PassingRowsObj(t, min_confidence) ==
    SelectSeq([i \in 1..t.d1 |-> i],
              LAMBDA i : ObjConfidence(t.data[i]) >= min_confidence * ScoreScale)

\* the 0-based index of the first class after the objectness column whose
\* score is the largest
FirstBestClassObj(row) ==
    CHOOSE c \in 0..(Len(row) - 6) :
        /\ row[6 + c] = ClassMax(row)
        /\ \A b \in 0..(c - 1) : row[6 + b] < ClassMax(row)

\* the bbox of a row for an image of the direct call
RowBox(row) ==
    LET size == ModelSize(input_shape)
    IN  <<ScaledBy(row[1], row[3], -1, pp_in.size[1], size),
          ScaledBy(row[2], row[4], -1, pp_in.size[2], size),
          ScaledBy(row[1], row[3], 1, pp_in.size[1], size),
          ScaledBy(row[2], row[4], 1, pp_in.size[2], size)>>

\* ai-server: the call on the ten-class tensor does not raise, and a passing
\* row whose class index is outside the table gives a candidate named
\* unknown_class_<id> with the row's confidence and bbox
C21_AiServerPlaceholder ==
    /\ (AiDone /\ pp_in = UnknownCall) => ~pp_out.result.raised
    /\ AiReturned =>
           LET scored == pp_out.result.scored
               passing == PassingRows(scored, pp_in.min_confidence)
               candidates == pp_out.result.candidates
           IN  \A k \in 1..Len(candidates) :
                   LET row == scored.data[passing[k]]
                   IN  FirstBestClass(row) >= Len(CLASS_NAMES) =>
                           /\ candidates[k].class_name
                                  = PlaceholderName(FirstBestClass(row))
                           /\ candidates[k].confidence = RowMax(row)
                           /\ candidates[k].bbox = RowBox(row)

\* root server: the same, for rows of six values or more
C21_RootPlaceholder ==
    /\ (variant = "root" /\ pp_out.done /\ pp_in = UnknownCallObj)
           => ~pp_out.result.raised
    /\ ObjReturned =>
           LET passing == PassingRowsObj(pp_out.norm, pp_in.min_confidence)
               detections == pp_out.result.detections
           IN  \A k \in 1..Len(detections) :
                   LET row == pp_out.norm.data[passing[k]]
                   IN  (Len(row) >= 6
                           /\ FirstBestClassObj(row) >= Len(ROOT_CLASS_NAMES)) =>
                           /\ detections[k].class_name
                                  = PlaceholderName(FirstBestClassObj(row))
                           /\ detections[k].confidence = ObjConfidence(row)
                           /\ detections[k].bbox = RowBox(row)

\* C21: in both postprocessors a class index outside the class-name table
\* does not raise; the detection is emitted under the name
\* unknown_class_<id> (index 9 with 7 labels: unknown_class_9), with the
\* confidence and the bbox of its row.
C21_UnknownClassPlaceholder ==
    C21_AiServerPlaceholder /\ C21_RootPlaceholder

\* the ai-server call on the ten-class tensor returned unknown_class_9
C21_AiServerReached ==
    /\ AiReturned
    /\ pp_in = UnknownCall
    /\ Len(AiDetections) = 3
    /\ AiDetections[1].class_name = "unknown_class_9"
    /\ AiDetections[1].confidence = 90
    /\ AiDetections[2].class_name = "unknown_class_7"
    /\ AiDetections[3].class_name = CLASS_NAMES[2]

\* the root server call on the ten-class tensor returned class_9
C21_RootReached ==
    /\ ObjReturned
    /\ pp_in = UnknownCallObj
    /\ Len(pp_out.result.detections) = 3
    /\ pp_out.result.detections[1].class_name = "class_9"
    /\ pp_out.result.detections[1].confidence = 90 * ScoreScale
    /\ pp_out.result.detections[1].bbox = RowBox(UnknownRowsObj[1])

\* C22: when the class count implied by the declared output shape differs
\* from the size of CLASS_NAMES, load_model returns without raising, the
\* model handle is set, and /detect and /health answer 200, /detect with
\* one result per image.
C22_MismatchNonFatal ==
    (phase = "serving" /\ ClassCountMismatch(variant, output_shape)) =>
        /\ ~load_raised
        /\ ort_session = "session"
        /\ input_name = "images"
        /\ ~input_shape.none
        /\ response.endpoint = "detect" =>
               /\ response.status = 200
               /\ response.success
               /\ Len(response.results) = Len(request.images)
        /\ response.endpoint = "health" => response.status = 200

\* a model of 2 classes was loaded and a /detect request on it returned
\* detections
C22_Witness ==
    /\ phase = "serving"
    /\ ClassCountMismatch(variant, output_shape)
    /\ output_shape.dims = <<1, 6, 7>>
    /\ response.endpoint = "detect"
    /\ response.status = 200
    /\ Len(response.results) = 2
    /\ Len(response.results[2].detections) > 0

\* C23: once the server is serving, no request to /, /health or /detect,
\* answered or failing, changes ort_session, input_name or input_shape:
\* only the startup handler writes them.  (The class-name table is the
\* definition CLASS_NAMES: the code reads it and never writes it.)
C23_HandleImmutableAfterStartup ==
    [][phase = "serving" =>
          /\ ort_session' = ort_session
          /\ input_name' = input_name
          /\ input_shape' = input_shape]_vars

\* a loaded server answered a /detect request in which one image failed and
\* one gave detections, and still holds its session
C23_Witness ==
    /\ phase = "serving"
    /\ response.endpoint = "detect"
    /\ Len(response.results) = 2
    /\ response.results[1].detections = <<>>
    /\ response.results[2].detections # <<>>
    /\ ort_session = "session"
    /\ input_name = "images"
    /\ ~input_shape.none

\* C24: with the model loaded, the results of /detect have one entry per
\* input image, in input order, entry i carrying the stepId of image i,
\* repeated stepIds included, whether image i failed or not.
C24_OneResultPerImageInOrder ==
    (DetectAnswered /\ ort_session # "None") =>
        /\ Len(response.results) = Len(request.images)
        /\ [i \in 1..Len(response.results) |-> response.results[i].stepId]
               = [i \in 1..Len(request.images) |-> request.images[i].stepId]

\* two images of the same stepId, the first failing and the second giving
\* detections, each got its entry
C24_Witness ==
    /\ DetectAnswered
    /\ ort_session # "None"
    /\ Len(request.images) = 2
    /\ request.images[1].stepId = request.images[2].stepId
    /\ ImageFails(request.images[1])
    /\ ~ImageFails(request.images[2])
    /\ Len(response.results) = 2
    /\ response.results[1].detections = <<>>
    /\ response.results[2].detections # <<>>
    /\ response.results[2].stepId = request.images[2].stepId

\* the detections /detect returns for an image sent alone
SentAlone(img) ==
    detect(variant, ort_session, input_shape,
           [images |-> <<img>>, minConfidence |-> request.minConfidence])
        .results[1].detections

\* C25: the detection list /detect returns for an image of a batch is the
\* list it returns for that image sent alone with the same minConfidence,
\* whatever images precede or follow it and whether they fail or not.
C25_ImagesIndependent ==
    (DetectAnswered /\ ort_session # "None") =>
        \A i \in 1..Len(request.images) :
            i <= Len(response.results)
                /\ response.results[i].detections = SentAlone(request.images[i])

\* an image with detections came after a failing image
C25_Witness ==
    /\ DetectAnswered
    /\ ort_session # "None"
    /\ Len(request.images) = 2
    /\ ImageFails(request.images[1])
    /\ SentAlone(request.images[2]) # <<>>
    /\ response.results[2].detections = SentAlone(request.images[2])

\* how many times d occurs in a list
Count(list, d) == Cardinality({i \in 1..Len(list) : list[i] = d})

\* the largest confidence of a non-empty list
MaxConfidence(list) == SetMax({list[i].confidence : i \in 1..Len(list)})

\* C26: what apply_nms returns holds no detection more often than the input
\* does (nothing altered, invented or duplicated); a detection of the
\* highest confidence of the input is in it; and every input detection it
\* holds less often than the input has IoU >= threshold with a returned
\* detection of greater or equal confidence.
C26_NmsCompleteAndConservative ==
    NmsDone =>
        LET input == nms_in.detections
            keep == nms_out.keep
        IN  /\ \A k \in 1..Len(keep) :
                   Count(keep, keep[k]) <= Count(input, keep[k])
            /\ input # <<>> =>
                   /\ keep # <<>>
                   /\ keep[1].confidence = MaxConfidence(input)
            /\ \A i \in 1..Len(input) :
                   Count(keep, input[i]) < Count(input, input[i]) =>
                       \E k \in 1..Len(keep) :
                           /\ keep[k].confidence >= input[i].confidence
                           /\ ~RatLess(compute_iou(keep[k].bbox, input[i].bbox),
                                       nms_in.iou_threshold)

\* two detections of the same class and box with confidences 0.8 and 0.9
\* and a distant one, threshold 1/2: the 0.9 one and the distant one stay
C26_Witness ==
    /\ NmsDone
    /\ nms_in.iou_threshold = NmsIouThreshold
    /\ Len(nms_in.detections) = 3
    /\ nms_in.detections[1].bbox = <<0, 0, 4, 4>>
    /\ nms_in.detections[1].confidence = 80
    /\ nms_in.detections[2].bbox = <<0, 0, 4, 4>>
    /\ nms_in.detections[2].confidence = 90
    /\ nms_in.detections[1].class_name = nms_in.detections[2].class_name
    /\ nms_in.detections[3].bbox = <<8, 8, 9, 9>>
    /\ nms_in.detections[3].confidence = 80
    /\ nms_out.keep = <<nms_in.detections[2], nms_in.detections[3]>>

\* C27: load_model is all-or-nothing: when it raised, ort_session is None
\* afterwards, and whenever ort_session is not None, input_name and
\* input_shape are set.
C27_LoadAllOrNothing ==
    phase = "serving" =>
        /\ load_raised => ort_session = "None"
        /\ ort_session # "None" => (input_name # "None" /\ ~input_shape.none)

\* load_model raised at get_inputs()[0] and left a session without input
\* name and shape
C27_HalfLoadedReached ==
    /\ phase = "serving"
    /\ load_raised
    /\ ort_session = "session"
    /\ input_name = "None"
    /\ input_shape.none

\* C28: apply_nms ends after at most len(detections) iterations of its
\* loop: every iteration takes the popped detection off the list and leaves
\* no more detections than it found, so the list shrinks by one or more;
\* the result has between 1 and len(detections) elements for a non-empty
\* input and none for an empty one.
C28_NmsTerminates ==
    NmsDone =>
        LET n == Len(nms_in.detections)
            pops == nms_out.pops
        IN  /\ nms_out.iters <= n
            /\ nms_out.iters = Len(pops)
            /\ Len(nms_out.keep) = nms_out.iters
            /\ n = 0 => nms_out.keep = <<>>
            /\ n > 0 => (Len(nms_out.keep) >= 1 /\ Len(nms_out.keep) <= n)
            /\ \A k \in 1..Len(pops) :
                   /\ Len(pops[k].remaining) <= Len(pops[k].rest)
                   /\ Len(pops[k].rest)
                          = (IF k = 1 THEN n ELSE Len(pops[k - 1].remaining)) - 1

\* three detections no one of which suppresses another, under a threshold
\* above 1: the loop ran three times; and under a threshold below 0 the
\* first iteration empties the list
C28_Witness ==
    /\ NmsDone
    /\ Len(nms_in.detections) = 3
    /\ \/ /\ RatLess([num |-> 1, den |-> 1], nms_in.iou_threshold)
          /\ nms_out.iters = 3
          /\ \E i \in 1..3 : Area(nms_in.detections[i].bbox) = 0
       \/ /\ RatLess(nms_in.iou_threshold, [num |-> 0, den |-> 1])
          /\ nms_out.iters = 1
====
